---- MODULE Spec2Model ----
(***************************************************************************)
(* The OTP manager of Bite Me Buddy (class OTPManager): an in-memory Map   *)
(* of OTP records keyed by order id, saved as a whole to localStorage      *)
(* after every mutation, with a five-minute expiry, three verification     *)
(* attempts and a periodic cleanup of records five minutes past expiry.    *)
(* With it, the resend button of the OTP form, the secret clock of the     *)
(* home page (class SecretClock), and the two carts of the shop pages      *)
(* (AppState.cart and class ShoppingCart) with the cart pricing rules.     *)
(***************************************************************************)
EXTENDS Integers, Sequences, FiniteSets, TLC

\* OTPManager, localStorage, Date.now() and the value of the last call
VARIABLES otpStore, storage, now, ret

\* SecretClock: its fields, the 'active' class of the edit-mode element, the
\* timeouts it has pending, the mouse button over the clock, and whether
\* handleLongPressComplete has ever run
VARIABLES longPressStart, longPressActive, longPressTimer, tapCount, lastTapTime,
          combinationCompleted, editMode, clockTimeouts, pointer, longPressCompleted

\* the carts: AppState.cart, ShoppingCart.cart, the localStorage item
\* 'bite_me_buddy_cart' both save to, and which of the two click listeners on
\* '.add-to-cart' was registered first on this page
VARIABLES appCart, shopCart, cartStorage, appListensFirst

\* a '.resend-otp' button: its disabled property, and the timeouts and intervals
\* handleResendOTP and startOTPTimer have pending for it
VARIABLES resendDisabled, resendTimers

otpVars == <<otpStore, storage, now, ret>>

buttonVars == <<resendDisabled, resendTimers>>

cartVars == <<appCart, shopCart, cartStorage, appListensFirst>>

clockVars == <<longPressStart, longPressActive, longPressTimer, tapCount, lastTapTime,
               combinationCompleted, editMode, clockTimeouts, pointer, longPressCompleted>>

\* what the OTP manager never touches
outsideOTP == <<clockVars, cartVars, buttonVars>>

\* what the secret clock never touches, Date.now() apart
outsideClock == <<otpStore, storage, ret, cartVars, buttonVars>>

\* what the carts never touch
outsideCart == <<otpVars, clockVars, buttonVars>>

\* what the resend button's handlers never touch, the OTP manager apart
outsideButton == <<clockVars, cartVars>>

vars == <<otpVars, clockVars, cartVars, buttonVars>>

(***************************************************************************)
(* Program constants.                                                      *)
(***************************************************************************)
otpExpiry == 300000

maxAttempts == 3

cleanupGrace == 300000

(***************************************************************************)
(* Bounds of the model.                                                    *)
(***************************************************************************)
\* the clock stops advancing at this instant (milliseconds)
MaxNow == 600001

\* Math.random() is sampled as k / RandDenom
RandDenom == 10000

\* the queries are applied to Maps of at most this many records
MaxQueryRecords == 3

(***************************************************************************)
(* JavaScript values: strings are sequences of characters, Map keys are    *)
(* numbers or strings (SameValueZero never equates the two).               *)
(***************************************************************************)
DigitChars == <<"0", "1", "2", "3", "4", "5", "6", "7", "8", "9">>

RECURSIVE NumberToString(_)
NumberToString(n) ==
    IF n < 10 THEN <<DigitChars[n + 1]>>
    ELSE Append(NumberToString(n \div 10), DigitChars[(n % 10) + 1])

DigitValue(c) == (CHOOSE i \in 1..10 : DigitChars[i] = c) - 1

RECURSIVE ParseDigits(_)
ParseDigits(s) ==
    IF Len(s) = 0 THEN 0
    ELSE 10 * ParseDigits(SubSeq(s, 1, Len(s) - 1)) + DigitValue(s[Len(s)])

Num(n) == [t |-> "number", n |-> n]

Str(s) == [t |-> "string", s |-> s]

\* the property key an object gives a Map key (Object.fromEntries)
ToPropertyKey(k) == IF k.t = "number" THEN NumberToString(k.n) ELSE k.s

(***************************************************************************)
(* Inputs.                                                                 *)
(***************************************************************************)
OrderIds == {Num(1), Str(<<"2">>)}

Phones == {"9876543210", "9123456780"}

RandomSamples == {0, RandDenom - 1}

\* the second order is a bystander: one phone, and always the lowest draw
Bystander == Str(<<"2">>)

PhonesFor(orderId) == IF orderId = Bystander THEN {"9876543210"} ELSE Phones

SamplesFor(orderId) == IF orderId = Bystander THEN {0} ELSE RandomSamples

\* a draw scaled by 10000 instead of 9000
MutRandomOTP(k) == NumberToString(1000 + ((k * 10000) \div RandDenom))

\* Math.floor(1000 + Math.random() * 9000).toString()
RandomOTP(k) == NumberToString(1000 + ((k * 9000) \div RandDenom))

InputOTPs == {RandomOTP(k) : k \in RandomSamples} \cup {<<"1", "2", "3">>}

\* the clock advances by a whole expiry period, or by one millisecond more
ClockSteps == {otpExpiry, otpExpiry + 1}

(***************************************************************************)
(* Map: entries in insertion order.                                        *)
(***************************************************************************)
MapHas(m, k) == \E i \in 1..Len(m) : m[i].key = k

MapIndex(m, k) == CHOOSE i \in 1..Len(m) : m[i].key = k

MapGet(m, k) == m[MapIndex(m, k)].val

MapSet(m, k, v) ==
    IF MapHas(m, k) THEN [m EXCEPT ![MapIndex(m, k)].val = v]
    ELSE Append(m, [key |-> k, val |-> v])

MapDelete(m, k) == SelectSeq(m, LAMBDA e : e.key # k)

MapKeys(m) == {m[i].key : i \in 1..Len(m)}

(***************************************************************************)
(* localStorage item 'bite_me_buddy_otps': absent, or the JSON text of an  *)
(* object, modelled as its entries in property order (integer-like keys    *)
(* ascending).                                                             *)
(***************************************************************************)
NoItem == <<"null">>

ObjHas(obj, p) == \E i \in 1..Len(obj) : obj[i].key = p

ObjSet(obj, p, v) ==
    IF ObjHas(obj, p)
    THEN [obj EXCEPT ![CHOOSE i \in 1..Len(obj) : obj[i].key = p].val = v]
    ELSE LET before == SelectSeq(obj, LAMBDA e : ParseDigits(e.key) < ParseDigits(p))
             after == SelectSeq(obj, LAMBDA e : ParseDigits(e.key) > ParseDigits(p))
         IN  before \o <<[key |-> p, val |-> v]>> \o after

RECURSIVE ObjectFromEntries(_)
ObjectFromEntries(m) ==
    IF Len(m) = 0 THEN <<>>
    ELSE ObjSet(ObjectFromEntries(SubSeq(m, 1, Len(m) - 1)),
                ToPropertyKey(m[Len(m)].key), m[Len(m)].val)

\* saveToStorage: localStorage.setItem(key, JSON.stringify(Object.fromEntries(otpStore)))
SaveToStorage(m) == <<"item", ObjectFromEntries(m)>>

RECURSIVE MapFromObject(_)
MapFromObject(obj) ==
    IF Len(obj) = 0 THEN <<>>
    ELSE MapSet(MapFromObject(SubSeq(obj, 1, Len(obj) - 1)),
                Str(obj[Len(obj)].key), obj[Len(obj)].val)

\* loadFromStorage into the empty Map of a new OTPManager
LoadFromStorage(item) == IF item = NoItem THEN <<>> ELSE MapFromObject(item[2])

(***************************************************************************)
(* generateOTP                                                             *)
(***************************************************************************)
\* a record created without adding otpExpiry
MutNewOTPData(otp, phone, t) ==
    [otp |-> otp, phone |-> phone, attempts |-> 0, generatedAt |-> t,
     expiresAt |-> t, verified |-> FALSE]

NewOTPData(otp, phone, t) ==
    [otp |-> otp, phone |-> phone, attempts |-> 0, generatedAt |-> t,
     expiresAt |-> t + otpExpiry, verified |-> FALSE]

GenerateStore(m, t, orderId, phone, otp) == MapSet(m, orderId, NewOTPData(otp, phone, t))

(***************************************************************************)
(* verifyOTP                                                               *)
(***************************************************************************)
\* expiry tested against the cleanup grace window
MutIsExpired(data, t) == t > data.expiresAt + cleanupGrace

IsExpired(data, t) == t > data.expiresAt

\* exhaustion tested with > instead of >=
MutIsExhausted(data) == data.attempts > maxAttempts

IsExhausted(data) == data.attempts >= maxAttempts

\* a comparison of the lengths only
MutCodeMatches(data, inputOTP) == Len(data.otp) = Len(inputOTP)

CodeMatches(data, inputOTP) == data.otp = inputOTP

\* an attempt that is not counted
MutAttempted(data) == data

\* an attempt that is counted twice
MutDoubleAttempted(data) == [data EXCEPT !.attempts = @ + 2]

Attempted(data) == [data EXCEPT !.attempts = @ + 1]

\* a record whose verified flag follows the last comparison
MutInvalidated(data) == [data EXCEPT !.verified = FALSE]

\* the record a mismatching attempt leaves
Invalidated(data) == data

MarkVerified(data, t) ==
    [f \in DOMAIN data \cup {"verifiedAt"} |->
        IF f = "verified" THEN TRUE
        ELSE IF f = "verifiedAt" THEN t
        ELSE data[f]]

\* the remaining attempts of a success reported as the maximum
MutSuccessRemaining(data) == maxAttempts

SuccessRemaining(data) == maxAttempts - data.attempts

InvalidMessage(remainingAttempts) ==
    <<"Invalid OTP.", remainingAttempts,
      IF remainingAttempts # 1 THEN "attempts" ELSE "attempt", "remaining">>

\* a verifyOTP without the !otpData guard: reading a field of undefined raises
MutNotFoundResult == [thrown |-> <<"TypeError">>]

NotFoundResult ==
    [success |-> FALSE, message |-> <<"OTP not found or expired">>, remainingAttempts |-> 0]

ExpiredResult ==
    [success |-> FALSE, message |-> <<"OTP has expired">>, remainingAttempts |-> 0]

ExhaustedResult ==
    [success |-> FALSE, message |-> <<"Maximum OTP attempts exceeded">>,
     remainingAttempts |-> 0]

\* verifyOTP at instant t: the Map it leaves, the object it returns, and whether
\* the branch taken calls saveToStorage
Verify(m, t, orderId, inputOTP) ==
    IF ~MapHas(m, orderId)
    THEN [store |-> m, result |-> NotFoundResult, save |-> FALSE]
    ELSE LET otpData == MapGet(m, orderId) IN
         IF IsExpired(otpData, t)
         THEN [store |-> MapDelete(m, orderId), result |-> ExpiredResult, save |-> TRUE]
         ELSE IF IsExhausted(otpData)
         THEN [store |-> m, result |-> ExhaustedResult, save |-> FALSE]
         ELSE LET tried == Attempted(otpData) IN
              IF CodeMatches(tried, inputOTP)
              THEN [store |-> MapSet(m, orderId, MarkVerified(tried, t)),
                    result |-> [success |-> TRUE,
                                message |-> <<"OTP verified successfully">>,
                                remainingAttempts |-> SuccessRemaining(tried)],
                    save |-> TRUE]
              ELSE [store |-> MapSet(m, orderId, Invalidated(tried)),
                    result |-> [success |-> FALSE,
                                message |-> InvalidMessage(maxAttempts - tried.attempts),
                                remainingAttempts |-> maxAttempts - tried.attempts],
                    save |-> TRUE]

(***************************************************************************)
(* checkOTPStatus                                                          *)
(***************************************************************************)
Max(a, b) == IF a > b THEN a ELSE b

\* milliseconds truncated to seconds
MutCeilSeconds(ms) == ms \div 1000

\* Math.ceil(ms / 1000) for ms >= 0
CeilSeconds(ms) == (ms + 999) \div 1000

CheckStatusResult(m, t, orderId) ==
    IF ~MapHas(m, orderId)
    THEN [exists |-> FALSE, verified |-> FALSE, expired |-> TRUE, attempts |-> 0,
          remainingAttempts |-> 0, timeRemaining |-> 0]
    ELSE LET otpData == MapGet(m, orderId)
             timeRemaining == Max(0, otpData.expiresAt - t)
         IN  [exists |-> TRUE, verified |-> otpData.verified,
              expired |-> (timeRemaining = 0), attempts |-> otpData.attempts,
              remainingAttempts |-> Max(0, maxAttempts - otpData.attempts),
              timeRemaining |-> CeilSeconds(timeRemaining)]

\* a status query that deletes the expired record it finds
MutCheckStatusStore(m, t, orderId) ==
    IF MapHas(m, orderId) /\ t > MapGet(m, orderId).expiresAt THEN MapDelete(m, orderId) ELSE m

\* the Map checkOTPStatus leaves: it only reads
CheckStatusStore(m, t, orderId) == m

(***************************************************************************)
(* sendOTPSMS: started by generateOTP and not awaited.                     *)
(***************************************************************************)
\* what the promise of sendOTPSMS resolves to: the try block ran through, or the
\* catch block took over
SendResult(sendOK) ==
    IF sendOK THEN [success |-> TRUE, message |-> <<"SMS sent successfully">>]
    ELSE [success |-> FALSE, message |-> <<"Failed to send SMS">>]

\* a send that takes the record back when it fails
MutAfterSend(m, orderId, sendOK) == IF sendOK THEN m ELSE MapDelete(m, orderId)

\* the Map after sendOTPSMS: it logs and notifies, and touches no record
AfterSend(m, orderId, sendOK) == m

(***************************************************************************)
(* resendOTP                                                               *)
(***************************************************************************)
\* resendOTP goes on to generateOTP only when the Map holds a record
ResendFinds(m, orderId) == MapHas(m, orderId)

\* a resend that takes the phone number of the newest record of the Map
MutResendPhone(m, orderId) == m[Len(m)].val.phone

\* the phone number resendOTP hands to generateOTP: otpData.phone
ResendPhone(m, orderId) == MapGet(m, orderId).phone

CannotResendResult ==
    [success |-> FALSE, message |-> <<"Cannot resend OTP. Please generate a new one.">>]

(***************************************************************************)
(* cleanupExpiredOTPs                                                      *)
(***************************************************************************)
\* a cleanup without the grace window
MutPastGrace(data, t) == t > data.expiresAt

\* a cleanup with the grace window on the wrong side of the comparison
MutEarlyPastGrace(data, t) == t + cleanupGrace > data.expiresAt

PastGrace(data, t) == t > data.expiresAt + cleanupGrace

\* a cleanup that also drops the records whose attempts are used up
MutCleanupStore(m, t) ==
    SelectSeq(m, LAMBDA e : ~PastGrace(e.val, t) /\ e.val.attempts < maxAttempts)

CleanupStore(m, t) == SelectSeq(m, LAMBDA e : ~PastGrace(e.val, t))

\* cleanupExpiredOTPs calls saveToStorage if (cleanedCount > 0)
CleanupSaves(cleanedCount) == cleanedCount > 0

(***************************************************************************)
(* getStatistics                                                           *)
(***************************************************************************)
\* expiry counted only past the cleanup grace window
MutCountsAsExpired(data, t) == t > data.expiresAt + cleanupGrace

\* the filter of the expired count: Date.now() > data.expiresAt
CountsAsExpired(data, t) == t > data.expiresAt

\* x.toFixed(1) for x = 100 * part / whole: the nearest tenth, as a string
ToFixed1(part, whole) ==
    LET tenths == (2000 * part + whole) \div (2 * whole)
    IN  NumberToString(tenths \div 10) \o <<".", DigitChars[(tenths % 10) + 1]>>

\* Array.from(values()).filter(data => data.verified).length
VerifiedCount(m) == Cardinality({i \in 1..Len(m) : m[i].val.verified})

\* Array.from(values()).filter(data => Date.now() > data.expiresAt).length
ExpiredCount(m, t) == Cardinality({i \in 1..Len(m) : CountsAsExpired(m[i].val, t)})

StatisticsResult(m, t) ==
    LET total == Len(m)
        verified == VerifiedCount(m)
        expired == ExpiredCount(m, t)
    IN  [total |-> total, verified |-> verified, expired |-> expired,
         active |-> total - verified - expired,
         successRate |-> IF total > 0 THEN Str(ToFixed1(verified, total)) ELSE Num(0)]

(***************************************************************************)
(* SecretClock: the state its constructor leaves.                          *)
(***************************************************************************)
LONG_PRESS_DURATION == 15000

TAP_INTERVAL == 500

REQUIRED_TAPS == 5

\* longPressTimer = null
NoTimer == 0 - 1

InitClock ==
    /\ longPressStart = 0
    /\ longPressActive = FALSE
    /\ longPressTimer = NoTimer
    /\ tapCount = 0
    /\ lastTapTime = 0
    /\ combinationCompleted = FALSE
    /\ editMode = FALSE
    /\ clockTimeouts = {}
    /\ pointer = "up"
    /\ longPressCompleted = FALSE

(***************************************************************************)
(* The carts: objects from item id to item, an item being its price and    *)
(* its quantity.                                                           *)
(***************************************************************************)
EmptyCart == <<>>

\* both scripts loaded on a page with no saved cart
InitCart(appFirst) ==
    /\ appCart = EmptyCart
    /\ shopCart = EmptyCart
    /\ cartStorage = NoItem
    /\ appListensFirst = appFirst

\* a resend button as rendered: enabled, nothing pending
InitButton ==
    /\ resendDisabled = FALSE
    /\ resendTimers = {}

(***************************************************************************)
(* The state machine.                                                      *)
(***************************************************************************)
InitOTP ==
    /\ otpStore = <<>>
    /\ storage = NoItem
    /\ now = 0
    /\ ret = [op |-> "new"]

Init == InitOTP /\ InitClock /\ InitCart(TRUE) /\ InitButton

\* generateOTP with the way its sendOTPSMS ends
GenerateAndSend(orderId, phone, k, sendOK) ==
    LET stored == GenerateStore(otpStore, now, orderId, phone, RandomOTP(k))
    IN  /\ ret' = [op |-> "generateOTP", value |-> RandomOTP(k), sms |-> SendResult(sendOK)]
        /\ otpStore' = AfterSend(stored, orderId, sendOK)
        /\ storage' = SaveToStorage(stored)
        /\ UNCHANGED <<now, outsideOTP>>

\* generateOTP as shipped: the send only logs and notifies, and runs through
GenerateOTP(orderId, phone, k) == GenerateAndSend(orderId, phone, k, TRUE)

VerifyOTP(orderId, inputOTP) ==
    LET v == Verify(otpStore, now, orderId, inputOTP) IN
    /\ otpStore' = v.store
    /\ storage' = IF v.save THEN SaveToStorage(v.store) ELSE storage
    /\ ret' = [op |-> "verifyOTP", value |-> v.result]
    /\ UNCHANGED <<now, outsideOTP>>

CheckOTPStatus(orderId) ==
    /\ otpStore' = CheckStatusStore(otpStore, now, orderId)
    /\ ret' = [op |-> "checkOTPStatus", value |-> CheckStatusResult(otpStore, now, orderId)]
    /\ UNCHANGED <<storage, now, outsideOTP>>

\* resendOTP with the way its sendOTPSMS ends, as a call
ResendCall(orderId, k, sendOK) ==
    /\ IF ~ResendFinds(otpStore, orderId)
       THEN /\ ret' = [op |-> "resendOTP", value |-> CannotResendResult]
            /\ UNCHANGED <<otpStore, storage>>
       ELSE     LET stored == GenerateStore(otpStore, now, orderId,
                                            ResendPhone(otpStore, orderId), RandomOTP(k))
                IN  /\ ret' = [op |-> "resendOTP",
                               value |-> [success |-> TRUE,
                                          message |-> <<"New OTP sent successfully">>,
                                          otp |-> RandomOTP(k)],
                               sms |-> SendResult(sendOK)]
                    /\ otpStore' = AfterSend(stored, orderId, sendOK)
                    /\ storage' = SaveToStorage(stored)
    /\ UNCHANGED now

ResendAndSend(orderId, k, sendOK) == ResendCall(orderId, k, sendOK) /\ UNCHANGED outsideOTP

ResendOTP(orderId, k) == ResendAndSend(orderId, k, TRUE)

\* the setInterval callback
CleanupExpiredOTPs ==
    /\ otpStore' = CleanupStore(otpStore, now)
    /\ storage' = IF CleanupSaves(Len(otpStore) - Len(otpStore'))
                  THEN SaveToStorage(otpStore') ELSE storage
    /\ ret' = [op |-> "cleanupExpiredOTPs", value |-> Len(otpStore) - Len(otpStore')]
    /\ UNCHANGED <<now, outsideOTP>>

GetStatistics ==
    /\ ret' = [op |-> "getStatistics", value |-> StatisticsResult(otpStore, now)]
    /\ UNCHANGED <<otpStore, storage, now, outsideOTP>>

Tick(d) ==
    /\ now + d <= MaxNow
    /\ now' = now + d
    /\ ret' = [op |-> "tick"]
    /\ UNCHANGED <<otpStore, storage, outsideOTP>>

Next ==
    \/ \E o \in OrderIds : \E p \in PhonesFor(o), k \in SamplesFor(o) : GenerateOTP(o, p, k)
    \/ \E o \in OrderIds, c \in InputOTPs : VerifyOTP(o, c)
    \/ \E o \in OrderIds : CheckOTPStatus(o)
    \/ \E o \in OrderIds : \E k \in SamplesFor(o) : ResendOTP(o, k)
    \/ CleanupExpiredOTPs
    \/ GetStatistics
    \/ \E d \in ClockSteps : Tick(d)

Spec == Init /\ [][Next]_vars

(***************************************************************************)
(* The queries as functions of the Map and the clock: checkOTPStatus and   *)
(* getStatistics applied to every Map of up to MaxQueryRecords records     *)
(* that were generated at instant 0 or 1 and since left alone, verified at *)
(* the first attempt, or exhausted by wrong codes.                         *)
(***************************************************************************)
QueryKey(i) == Str(NumberToString(i))

QueryOrderIds == {QueryKey(i) : i \in 1..MaxQueryRecords}

QueryInstants == {0, 1, otpExpiry, otpExpiry + 1}

QueryRecords(t) ==
    UNION {LET fresh == NewOTPData(RandomOTP(0), "9876543210", g)
           IN  {fresh,
                MarkVerified(Attempted(fresh), g),
                Invalidated(Attempted(Invalidated(Attempted(Invalidated(Attempted(fresh))))))}
           : g \in {h \in {0, 1} : h <= t}}

QueryStores(t) ==
    UNION {{[i \in 1..n |-> [key |-> QueryKey(i), val |-> f[i]]] :
                f \in [1..n -> QueryRecords(t)]}
           : n \in 0..MaxQueryRecords}

InitQuery ==
    /\ now \in QueryInstants
    /\ otpStore \in QueryStores(now)
    /\ storage = SaveToStorage(otpStore)
    /\ ret = [op |-> "new"]
    /\ InitClock
    /\ InitCart(TRUE)
    /\ InitButton

NextQuery ==
    \/ \E o \in QueryOrderIds : CheckOTPStatus(o)
    \/ GetStatistics

SpecQuery == InitQuery /\ [][NextQuery]_vars

(***************************************************************************)
(* The manager used with the order identifier 1 both as the number and as  *)
(* the string: two keys of the Map, one property name of the snapshot.     *)
(***************************************************************************)
KeyOrderIds == {Num(1), Str(<<"1">>)}

NextKeys ==
    \/ \E o \in KeyOrderIds : GenerateOTP(o, "9876543210", 0)
    \/ \E o \in KeyOrderIds, c \in InputOTPs : VerifyOTP(o, c)
    \/ \E o \in KeyOrderIds : ResendOTP(o, RandDenom - 1)
    \/ CleanupExpiredOTPs
    \/ \E d \in ClockSteps : Tick(d)

SpecKeys == Init /\ [][NextKeys]_vars

(***************************************************************************)
(* The manager across page reloads: a new OTPManager whose constructor     *)
(* loads the snapshot into an empty Map.                                   *)
(***************************************************************************)
Reload ==
    /\ otpStore' = LoadFromStorage(storage)
    /\ ret' = [op |-> "reload"]
    /\ UNCHANGED <<storage, now, outsideOTP>>

NextReload ==
    \/ \E o \in KeyOrderIds : GenerateOTP(o, "9876543210", 0)
    \/ \E o \in KeyOrderIds, c \in InputOTPs : VerifyOTP(o, c)
    \/ \E o \in KeyOrderIds : CheckOTPStatus(o)
    \/ \E o \in KeyOrderIds : ResendOTP(o, RandDenom - 1)
    \/ Reload
    \/ \E d \in ClockSteps : Tick(d)

SpecReload == Init /\ [][NextReload]_vars

(***************************************************************************)
(* The manager with a notification send that can fail.                     *)
(***************************************************************************)
NextSend ==
    \/ \E o \in OrderIds, sendOK \in BOOLEAN :
          \E p \in PhonesFor(o), k \in SamplesFor(o) : GenerateAndSend(o, p, k, sendOK)
    \/ \E o \in OrderIds, sendOK \in BOOLEAN :
          \E k \in SamplesFor(o) : ResendAndSend(o, k, sendOK)
    \/ \E o \in OrderIds, c \in InputOTPs : VerifyOTP(o, c)
    \/ \E d \in ClockSteps : Tick(d)

SpecSend == Init /\ [][NextSend]_vars

(***************************************************************************)
(* SecretClock: the handlers of mousedown, mouseup / mouseleave and click  *)
(* on the clock element, its timeouts and the cancel button.  A click      *)
(* follows the mouseup that follows a mousedown on the element.            *)
(***************************************************************************)
MaxClockNow == 20000

\* the clock reads a time later than any interval the handlers compare with
ClockEpoch == 2 * TAP_INTERVAL + 1

ClockElapses == {TAP_INTERVAL, LONG_PRESS_DURATION}

LongPressTimeout(due) == [kind |-> "longPress", due |-> due]

ResetTimeout(due) == [kind |-> "reset", due |-> due]

\* clearTimeout(this.longPressTimer)
ClearLongPressTimer(timeouts, handle) == timeouts \ {LongPressTimeout(handle)}

InitSecretClock ==
    /\ otpStore = <<>>
    /\ storage = NoItem
    /\ ret = [op |-> "new"]
    /\ now = ClockEpoch
    /\ InitClock
    /\ InitCart(TRUE)
    /\ InitButton

HandlePressStart ==
    /\ pointer = "up"
    /\ pointer' = "down"
    /\ IF editMode
       THEN UNCHANGED <<longPressStart, longPressActive, longPressTimer, clockTimeouts>>
       ELSE /\ longPressStart' = now
            /\ longPressActive' = TRUE
            /\ longPressTimer' = now + LONG_PRESS_DURATION
            /\ clockTimeouts' = clockTimeouts \cup {LongPressTimeout(now + LONG_PRESS_DURATION)}
    /\ UNCHANGED <<tapCount, lastTapTime, combinationCompleted, editMode, longPressCompleted>>
    /\ UNCHANGED <<now, outsideClock>>

HandlePressEnd(type) ==
    /\ \/ type = "mouseup" /\ pointer = "down" /\ pointer' = "released"
       \/ type = "mouseleave" /\ pointer # "released" /\ pointer' = "up"
    /\ longPressActive' = FALSE
    /\ longPressTimer' = NoTimer
    /\ clockTimeouts' = ClearLongPressTimer(clockTimeouts, longPressTimer)
    /\ IF now - lastTapTime > TAP_INTERVAL * 2
       THEN longPressStart' = 0 /\ tapCount' = 0 /\ lastTapTime' = 0
       ELSE UNCHANGED <<longPressStart, tapCount, lastTapTime>>
    /\ UNCHANGED <<combinationCompleted, editMode, longPressCompleted>>
    /\ UNCHANGED <<now, outsideClock>>

HandleTap ==
    /\ pointer = "released"
    /\ pointer' = "up"
    /\ IF longPressActive \/ editMode
       THEN UNCHANGED <<longPressStart, longPressActive, longPressTimer, tapCount,
                        lastTapTime, combinationCompleted, editMode, clockTimeouts>>
       ELSE IF now - lastTapTime <= TAP_INTERVAL
            THEN /\ tapCount' = tapCount + 1
                 /\ lastTapTime' = now
                 /\ IF tapCount' >= REQUIRED_TAPS
                    THEN /\ combinationCompleted' = TRUE
                         /\ editMode' = TRUE
                         /\ clockTimeouts' = clockTimeouts \cup {ResetTimeout(now + 1000)}
                    ELSE UNCHANGED <<combinationCompleted, editMode, clockTimeouts>>
                 /\ UNCHANGED <<longPressStart, longPressActive, longPressTimer>>
            ELSE /\ longPressStart' = 0
                 /\ longPressActive' = FALSE
                 /\ longPressTimer' = NoTimer
                 /\ clockTimeouts' = ClearLongPressTimer(clockTimeouts, longPressTimer)
                 /\ tapCount' = 1
                 /\ lastTapTime' = now
                 /\ UNCHANGED <<combinationCompleted, editMode>>
    /\ UNCHANGED longPressCompleted
    /\ UNCHANGED <<now, outsideClock>>

\* a timeout that is due runs: the long-press callback, or the reset one second
\* after the taps completed
ClockTimeoutFires(tm) ==
    /\ tm \in clockTimeouts
    /\ tm.due <= now
    /\ IF tm.kind = "longPress"
       THEN /\ longPressCompleted' = (longPressCompleted \/ longPressActive)
            /\ clockTimeouts' = clockTimeouts \ {tm}
            /\ UNCHANGED <<longPressStart, longPressActive, longPressTimer, tapCount,
                           lastTapTime>>
       ELSE /\ longPressStart' = 0
            /\ longPressActive' = FALSE
            /\ tapCount' = 0
            /\ lastTapTime' = 0
            /\ longPressTimer' = NoTimer
            /\ clockTimeouts' = ClearLongPressTimer(clockTimeouts \ {tm}, longPressTimer)
            /\ UNCHANGED longPressCompleted
    /\ UNCHANGED <<combinationCompleted, editMode, pointer>>
    /\ UNCHANGED <<now, outsideClock>>

CancelEditMode ==
    /\ editMode
    /\ editMode' = FALSE
    /\ combinationCompleted' = FALSE
    /\ longPressStart' = 0
    /\ longPressActive' = FALSE
    /\ tapCount' = 0
    /\ lastTapTime' = 0
    /\ longPressTimer' = NoTimer
    /\ clockTimeouts' = ClearLongPressTimer(clockTimeouts, longPressTimer)
    /\ UNCHANGED <<pointer, longPressCompleted>>
    /\ UNCHANGED <<now, outsideClock>>

\* time passes up to the next timeout that is due
ClockElapse(d) ==
    /\ now + d <= MaxClockNow
    /\ \A tm \in clockTimeouts : now + d <= tm.due
    /\ now' = now + d
    /\ UNCHANGED outsideClock
    /\ UNCHANGED clockVars

NextClock ==
    \/ HandlePressStart
    \/ \E type \in {"mouseup", "mouseleave"} : HandlePressEnd(type)
    \/ HandleTap
    \/ \E tm \in clockTimeouts : ClockTimeoutFires(tm)
    \/ CancelEditMode
    \/ \E d \in ClockElapses : ClockElapse(d)

SpecClock == InitSecretClock /\ [][NextClock]_vars

(***************************************************************************)
(* The carts: AppState (main script) and ShoppingCart (cart script) on one *)
(* page.  Each keeps its own object and saves it whole under the same key. *)
(***************************************************************************)
MaxQuantity == 2

ItemIds == {<<"1">>, <<"2">>}

\* data-item-price of the button of an item
ItemPrice(itemId) == IF itemId = <<"1">> THEN 250 ELSE 100

\* the quantities callers hand to addItem and updateQuantity
Quantities == {0 - 1, 0, 1, MaxQuantity}

\* the texts of the quantity input
QuantityInputs == {<<"0">>, <<"2">>, <<"-", "1">>, <<"x">>}

\* parseInt(value): <<n>>, or <<>> for NaN
ParseInt(value) ==
    LET negative == Len(value) > 0 /\ value[1] = "-"
        body == IF negative THEN Tail(value) ELSE value
        digits == {n \in 0..Len(body) : \A i \in 1..n : body[i] \in {DigitChars[j] : j \in 1..10}}
        n == CHOOSE m \in digits : \A o \in digits : o <= m
    IN  IF n = 0 THEN <<>>
        ELSE <<(IF negative THEN 0 - 1 ELSE 1) * ParseDigits(SubSeq(body, 1, n))>>

CartHas(cart, itemId) == itemId \in DOMAIN cart

CartSet(cart, itemId, item) ==
    [x \in DOMAIN cart \cup {itemId} |-> IF x = itemId THEN item ELSE cart[x]]

CartDelete(cart, itemId) == [x \in DOMAIN cart \ {itemId} |-> cart[x]]

\* itemData.quantity || 1
QuantityOrOne(itemData) ==
    IF "quantity" \in DOMAIN itemData /\ itemData.quantity # 0 THEN itemData.quantity ELSE 1

\* the cart addToCart and addItem leave
AddedCart(cart, itemId, itemData) ==
    IF CartHas(cart, itemId)
    THEN [cart EXCEPT ![itemId].quantity = @ + QuantityOrOne(itemData)]
    ELSE CartSet(cart, itemId, [price |-> itemData.price, quantity |-> QuantityOrOne(itemData)])

\* the cart updateQuantity leaves
UpdatedCart(cart, itemId, quantity) ==
    IF ~CartHas(cart, itemId) THEN cart
    ELSE IF quantity <= 0 THEN CartDelete(cart, itemId)
    ELSE [cart EXCEPT ![itemId].quantity = quantity]

\* JSON.parse of the saved item, or the cart as it was when there is none
LoadedCart(item, cart) == IF item = NoItem THEN cart ELSE item[2]

\* the quantities stay within the bound
WithinBound(cart) ==
    \A x \in DOMAIN cart : cart[x].quantity <= MaxQuantity /\ cart[x].quantity >= 0 - MaxQuantity

InitShoppingCart ==
    /\ InitOTP
    /\ InitClock
    /\ InitButton
    /\ \E appFirst \in BOOLEAN : InitCart(appFirst)

\* a click on the '.add-to-cart' button of an item: the two document listeners
\* run in the order they were registered
AddToCartClick(itemId) ==
    LET itemData == [price |-> ItemPrice(itemId)]
        byApp == AddedCart(appCart, itemId, itemData)
        byShop == AddedCart(shopCart, itemId, itemData)
    IN  /\ WithinBound(byApp) /\ WithinBound(byShop)
        /\ appCart' = byApp
        /\ shopCart' = byShop
        /\ cartStorage' = <<"item", IF appListensFirst THEN byShop ELSE byApp>>
        /\ UNCHANGED <<appListensFirst, outsideCart>>

\* ShoppingCart.addItem(itemId, itemData) with itemData.quantity given
AddItem(itemId, quantity) ==
    LET added == AddedCart(shopCart, itemId, [price |-> ItemPrice(itemId), quantity |-> quantity])
    IN  /\ WithinBound(added)
        /\ shopCart' = added
        /\ cartStorage' = <<"item", added>>
        /\ UNCHANGED <<appCart, appListensFirst, outsideCart>>

RemoveItem(itemId) ==
    /\ IF CartHas(shopCart, itemId)
       THEN /\ shopCart' = CartDelete(shopCart, itemId)
            /\ cartStorage' = <<"item", shopCart'>>
       ELSE UNCHANGED <<shopCart, cartStorage>>
    /\ UNCHANGED <<appCart, appListensFirst, outsideCart>>

UpdateQuantity(itemId, quantity) ==
    /\ IF CartHas(shopCart, itemId)
       THEN /\ shopCart' = UpdatedCart(shopCart, itemId, quantity)
            /\ cartStorage' = <<"item", shopCart'>>
       ELSE UNCHANGED <<shopCart, cartStorage>>
    /\ UNCHANGED <<appCart, appListensFirst, outsideCart>>

IncreaseQuantity(itemId) ==
    /\ CartHas(shopCart, itemId) => shopCart[itemId].quantity < MaxQuantity
    /\ IF CartHas(shopCart, itemId)
       THEN UpdateQuantity(itemId, shopCart[itemId].quantity + 1)
       ELSE UNCHANGED <<cartVars, outsideCart>>

DecreaseQuantity(itemId) ==
    IF CartHas(shopCart, itemId)
    THEN UpdateQuantity(itemId, shopCart[itemId].quantity - 1)
    ELSE UNCHANGED <<cartVars, outsideCart>>

UpdateQuantityInput(itemId, value) ==
    LET quantity == ParseInt(value)
    IN  IF quantity # <<>> /\ quantity[1] >= 1
        THEN UpdateQuantity(itemId, quantity[1])
        ELSE UNCHANGED <<cartVars, outsideCart>>

ClearCart ==
    /\ shopCart' = EmptyCart
    /\ cartStorage' = <<"item", EmptyCart>>
    /\ UNCHANGED <<appCart, appListensFirst, outsideCart>>

\* AppState.logout once /auth/logout has answered ok
Logout ==
    /\ cartStorage' = NoItem
    /\ appCart' = EmptyCart
    /\ UNCHANGED <<shopCart, appListensFirst, outsideCart>>

\* a page load: both scripts start again and load the saved cart
PageLoad ==
    /\ appCart' = LoadedCart(cartStorage, EmptyCart)
    /\ shopCart' = LoadedCart(cartStorage, EmptyCart)
    /\ appListensFirst' \in BOOLEAN
    /\ UNCHANGED <<cartStorage, outsideCart>>

NextCart ==
    \/ \E itemId \in ItemIds : AddToCartClick(itemId)
    \/ \E itemId \in ItemIds, quantity \in Quantities : AddItem(itemId, quantity)
    \/ \E itemId \in ItemIds : RemoveItem(itemId)
    \/ \E itemId \in ItemIds, quantity \in Quantities : UpdateQuantity(itemId, quantity)
    \/ \E itemId \in ItemIds : IncreaseQuantity(itemId)
    \/ \E itemId \in ItemIds : DecreaseQuantity(itemId)
    \/ \E itemId \in ItemIds, value \in QuantityInputs : UpdateQuantityInput(itemId, value)
    \/ ClearCart
    \/ Logout
    \/ PageLoad

SpecCart == InitShoppingCart /\ [][NextCart]_vars

\* the page used through its buttons only: add clicks, the cart page's remove,
\* quantity and clear controls, and logout
NextCartButtons ==
    \/ \E itemId \in ItemIds : AddToCartClick(itemId)
    \/ \E itemId \in ItemIds : RemoveItem(itemId)
    \/ \E itemId \in ItemIds, quantity \in Quantities : UpdateQuantity(itemId, quantity)
    \/ ClearCart
    \/ Logout

SpecCartButtons == InitShoppingCart /\ [][NextCartButtons]_vars

(***************************************************************************)
(* Cart pricing: ShoppingCart.updateCartSummary and CartUtils.             *)
(***************************************************************************)
RECURSIVE SumOfItems(_, _)
SumOfItems(cart, ids) ==
    IF ids = {} THEN 0
    ELSE LET x == CHOOSE y \in ids : TRUE
         IN  cart[x].price * cart[x].quantity + SumOfItems(cart, ids \ {x})

\* ShoppingCart.getTotal, and the subtotal of CartUtils.generateOrderSummary
GetTotal(cart) == SumOfItems(cart, DOMAIN cart)

\* the deliveryCharge of updateCartSummary
SummaryDeliveryCharge(subtotal) == IF subtotal > 0 THEN 40 ELSE 0

minFreeDelivery == 500

charge == 40

CalculateDelivery(subtotal, minFree, deliveryCharge) ==
    IF subtotal >= minFree THEN 0 ELSE deliveryCharge

\* the delivery of generateOrderSummary: calculateDelivery(subtotal)
OrderSummaryDelivery(cart) == CalculateDelivery(GetTotal(cart), minFreeDelivery, charge)

(***************************************************************************)
(* The resend button of one order: handleResendOTP on a click, the timeout *)
(* that shows the result and starts the countdown, the timeout that        *)
(* re-enables the button, and the countdown intervals of startOTPTimer.    *)
(* The order has an OTP, generated when the page was rendered.             *)
(***************************************************************************)
MaxButtonNow == 70000

\* button.dataset.orderId
ButtonOrder == Str(<<"1">>)

ResultTimer(due, success) == [kind |-> "result", due |-> due, success |-> success, timeLeft |-> 0]

ReenableTimer(due) == [kind |-> "reenable", due |-> due, success |-> TRUE, timeLeft |-> 0]

CountdownTimer(due, timeLeft) ==
    [kind |-> "countdown", due |-> due, success |-> TRUE, timeLeft |-> timeLeft]

\* the interval startOTPTimer sets up, if the status says there is time left
StartOTPTimer(m, t, orderId) ==
    LET status == CheckStatusResult(m, t, orderId)
    IN  IF status.exists /\ ~status.expired
        THEN {CountdownTimer(t + 1000, status.timeRemaining)}
        ELSE {}

InitResendButton ==
    /\ otpStore = GenerateStore(<<>>, 0, ButtonOrder, "9876543210", RandomOTP(0))
    /\ storage = SaveToStorage(otpStore)
    /\ now = 0
    /\ ret = [op |-> "generateOTP", value |-> RandomOTP(0), sms |-> SendResult(TRUE)]
    /\ InitClock
    /\ InitCart(TRUE)
    /\ InitButton

\* a click on the button: a disabled button gets no click
HandleResendOTP ==
    /\ ~resendDisabled
    /\ ResendCall(ButtonOrder, 0, TRUE)
    /\ resendDisabled' = TRUE
    /\ resendTimers' = resendTimers \cup {ResultTimer(now + 1500, ret'.value.success)}
    /\ UNCHANGED outsideButton

\* the timeout of handleResendOTP, 1.5 s after the click
ResultTimerFires(tm) ==
    /\ tm \in resendTimers /\ tm.kind = "result" /\ tm.due <= now
    /\ resendTimers' = ((resendTimers \ {tm})
                            \cup (IF tm.success THEN StartOTPTimer(otpStore, now, ButtonOrder) ELSE {}))
                            \cup {ReenableTimer(now + 30000)}
    /\ UNCHANGED <<resendDisabled, otpVars, outsideButton>>

\* the inner timeout, 30 s later
ReenableTimerFires(tm) ==
    /\ tm \in resendTimers /\ tm.kind = "reenable" /\ tm.due <= now
    /\ resendDisabled' = FALSE
    /\ resendTimers' = resendTimers \ {tm}
    /\ UNCHANGED <<otpVars, outsideButton>>

\* one run of the interval callback of startOTPTimer
CountdownTick(tm) ==
    /\ tm \in resendTimers /\ tm.kind = "countdown" /\ tm.due <= now
    /\ IF tm.timeLeft <= 0
       THEN /\ resendTimers' = resendTimers \ {tm}
            /\ resendDisabled' = FALSE
       ELSE /\ resendTimers' = (resendTimers \ {tm})
                                   \cup {CountdownTimer(tm.due + 1000, tm.timeLeft - 1)}
            /\ resendDisabled' = TRUE
    /\ UNCHANGED <<otpVars, outsideButton>>

\* time passes until the next timer is due
ButtonElapse ==
    /\ resendTimers # {}
    /\ LET next == CHOOSE d \in {tm.due : tm \in resendTimers} :
                        \A tm \in resendTimers : d <= tm.due
       IN  /\ next > now
           /\ next <= MaxButtonNow
           /\ now' = next
    /\ UNCHANGED <<otpStore, storage, ret, buttonVars, outsideButton>>

NextButton ==
    \/ HandleResendOTP
    \/ \E tm \in resendTimers : ResultTimerFires(tm)
    \/ \E tm \in resendTimers : ReenableTimerFires(tm)
    \/ \E tm \in resendTimers : CountdownTick(tm)
    \/ ButtonElapse

SpecButton == InitResendButton /\ [][NextButton]_vars

(***************************************************************************)
(* Properties of the OTP lifecycle.                                        *)
(***************************************************************************)
\* the step is verifyOTP(o, c), generateOTP(o, p, k), checkOTPStatus(o)
VerifyStep(o, c) == ret'.op = "verifyOTP" /\ VerifyOTP(o, c)

GenerateStep(o, p, k) == ret'.op = "generateOTP" /\ GenerateOTP(o, p, k)

CheckStatusStep(o) == ret'.op = "checkOTPStatus" /\ CheckOTPStatus(o)

Live(m, t, orderId) == MapHas(m, orderId) /\ t <= MapGet(m, orderId).expiresAt

\* the step replaces the record of orderId (generateOTP or a successful resendOTP)
Replaces(orderId) ==
    \/ \E p \in Phones, k \in RandomSamples : GenerateStep(orderId, p, k)
    \/ /\ ret'.op = "resendOTP"
       /\ MapHas(otpStore, orderId)
       /\ \E k \in RandomSamples : ResendOTP(orderId, k)

IsOTPCode(s) ==
    /\ Len(s) = 4
    /\ \A i \in 1..4 : \E d \in 1..10 : DigitChars[d] = s[i]
    /\ ParseDigits(s) \in 1000..9999

\* C1: verifyOTP returns success exactly when a record exists for the order, the
\* clock is not past its expiresAt, fewer than maxAttempts attempts were consumed
\* before the call and the input equals the stored code.
NoFalseAccept ==
    [][\A o \in OrderIds, c \in InputOTPs :
          VerifyStep(o, c) =>
              (ret'.value.success <=>
                  /\ Live(otpStore, now, o)
                  /\ MapGet(otpStore, o).attempts < maxAttempts
                  /\ MapGet(otpStore, o).otp = c)]_vars

AcceptedOnce ==
    /\ ret.op = "verifyOTP"
    /\ ret.value.success
    /\ \E i \in 1..Len(otpStore) : otpStore[i].val.verified

\* C2: once maxAttempts attempts are consumed on an unexpired record, every verifyOTP
\* on it, whatever the input, returns 'Maximum OTP attempts exceeded' with
\* remainingAttempts 0 and leaves the store as it is, and no step other than a
\* replacement of the record brings its attempts below maxAttempts.
ExhaustionIsTerminal ==
    [][\A o \in OrderIds :
          (Live(otpStore, now, o) /\ MapGet(otpStore, o).attempts >= maxAttempts) =>
              /\ \A c \in InputOTPs :
                    VerifyStep(o, c) =>
                        /\ ret'.value = ExhaustedResult
                        /\ otpStore' = otpStore
                        /\ storage' = storage
              /\ (MapHas(otpStore', o) /\ ~Replaces(o)) =>
                    MapGet(otpStore', o).attempts = MapGet(otpStore, o).attempts]_vars

RejectedAfterThreeWrong ==
    /\ ret.op = "verifyOTP"
    /\ ret.value = ExhaustedResult
    /\ \E i \in 1..Len(otpStore) :
          /\ otpStore[i].val.attempts = maxAttempts
          /\ ~otpStore[i].val.verified
          /\ now <= otpStore[i].val.expiresAt

\* C3: every stored record has 0 <= attempts <= maxAttempts.
AttemptsBounded ==
    \A i \in 1..Len(otpStore) :
        otpStore[i].val.attempts >= 0 /\ otpStore[i].val.attempts <= maxAttempts

AttemptsAtMaximum ==
    /\ ret.op = "verifyOTP"
    /\ \E i \in 1..Len(otpStore) : otpStore[i].val.attempts = maxAttempts

\* the first verifyOTP on a record generated at this instant, with its code
FirstVerifyWithCode(o, c) ==
    /\ MapHas(otpStore, o)
    /\ MapGet(otpStore, o).generatedAt = now
    /\ MapGet(otpStore, o).attempts = 0
    /\ MapGet(otpStore, o).otp = c
    /\ VerifyStep(o, c)

\* C4 as stated: generateOTP followed immediately by verifyOTP with the returned
\* code returns success with remainingAttempts = maxAttempts.
FirstVerifyLeavesMaxAttempts ==
    [][\A o \in OrderIds, c \in InputOTPs :
          FirstVerifyWithCode(o, c) =>
              ret'.value.success /\ ret'.value.remainingAttempts = maxAttempts]_vars

\* C4 as amended: generateOTP followed immediately by verifyOTP with the returned
\* code returns success with remainingAttempts = maxAttempts - 1, the attempt that
\* succeeded being counted.
FirstVerifyCountsItsAttempt ==
    [][\A o \in OrderIds, c \in InputOTPs :
          FirstVerifyWithCode(o, c) =>
              /\ ret'.value.success
              /\ ret'.value.remainingAttempts = maxAttempts - 1
              /\ MapGet(otpStore', o).attempts = 1]_vars

FirstVerifyAccepted ==
    /\ ret.op = "verifyOTP"
    /\ ret.value.success
    /\ ret.value.remainingAttempts = maxAttempts - 1
    /\ \E i \in 1..Len(otpStore) :
          /\ otpStore[i].val.verified
          /\ otpStore[i].val.generatedAt = now
          /\ otpStore[i].val.attempts = 1

\* C5: verifyOTP with no record fails with remainingAttempts 0 and changes nothing;
\* with a record past its expiresAt it deletes that record alone and fails with the
\* expiry message and remainingAttempts 0, whatever the attempts, verified flag and
\* input, and checkOTPStatus then reports exists = false for the order.
AbsenceAndExpiryFirst ==
    [][\A o \in OrderIds, c \in InputOTPs :
          VerifyStep(o, c) =>
              /\ ~MapHas(otpStore, o) =>
                    /\ ret'.value = NotFoundResult
                    /\ otpStore' = otpStore
                    /\ storage' = storage
              /\ (MapHas(otpStore, o) /\ now > MapGet(otpStore, o).expiresAt) =>
                    /\ ret'.value = ExpiredResult
                    /\ otpStore' = MapDelete(otpStore, o)
                    /\ ~MapHas(otpStore', o)
                    /\ ~CheckStatusResult(otpStore', now', o).exists]_vars

ExpiredRecordDeleted ==
    /\ ret.op = "verifyOTP"
    /\ ret.value = ExpiredResult
    /\ Len(otpStore) = 1

\* C6: a mismatching verifyOTP on an unexpired, non-exhausted record adds exactly 1
\* to attempts and changes no other field, returns success = false with
\* remainingAttempts = maxAttempts - attempts (after the increment), and while that
\* value is > 0 a verifyOTP with the stored code at the same instant succeeds.
MismatchConsumesOneAttempt ==
    [][\A o \in OrderIds, c \in InputOTPs :
          (/\ VerifyStep(o, c)
           /\ Live(otpStore, now, o)
           /\ MapGet(otpStore, o).attempts < maxAttempts
           /\ MapGet(otpStore, o).otp # c) =>
              /\ MapHas(otpStore', o)
              /\ MapGet(otpStore', o) =
                    [MapGet(otpStore, o) EXCEPT !.attempts = @ + 1]
              /\ ~ret'.value.success
              /\ ret'.value.remainingAttempts = maxAttempts - MapGet(otpStore', o).attempts
              /\ ret'.value.remainingAttempts > 0 =>
                    Verify(otpStore', now', o, MapGet(otpStore', o).otp).result.success]_vars

MismatchWithRetryLeft ==
    /\ ret.op = "verifyOTP"
    /\ ~ret.value.success
    /\ ret.value.remainingAttempts > 0
    /\ \E i \in 1..Len(otpStore) :
          otpStore[i].val.attempts = maxAttempts - ret.value.remainingAttempts

\* C7: a record whose verified flag is true keeps it true in every step that leaves
\* the record in the store and does not replace it by generateOTP or resendOTP.
VerifiedIsMonotonic ==
    [][\A o \in OrderIds :
          (/\ MapHas(otpStore, o)
           /\ MapGet(otpStore, o).verified
           /\ MapHas(otpStore', o)
           /\ ~Replaces(o)) =>
              MapGet(otpStore', o).verified]_vars

MismatchOnVerifiedRecord ==
    /\ ret.op = "verifyOTP"
    /\ ~ret.value.success
    /\ ret.value.remainingAttempts > 0
    /\ \E i \in 1..Len(otpStore) :
          /\ otpStore[i].val.verified
          /\ otpStore[i].val.attempts = maxAttempts - ret.value.remainingAttempts

\* C8: generateOTP(orderId, phone) leaves exactly one record for orderId, with
\* attempts 0, verified false, no verifiedAt, the given phone, the returned code and
\* expiresAt = generation time + otpExpiry, and leaves the other records unchanged.
GenerateInstallsFreshRecord ==
    [][\A o \in OrderIds, p \in Phones, k \in RandomSamples :
          GenerateStep(o, p, k) =>
              /\ Cardinality({i \in 1..Len(otpStore') : otpStore'[i].key = o}) = 1
              /\ MapGet(otpStore', o) =
                    [otp |-> ret'.value, phone |-> p, attempts |-> 0,
                     generatedAt |-> now, expiresAt |-> now + 5 * 60 * 1000,
                     verified |-> FALSE]
              /\ MapKeys(otpStore') = MapKeys(otpStore) \cup {o}
              /\ \A i \in 1..Len(otpStore) :
                    otpStore[i].key # o =>
                        MapGet(otpStore', otpStore[i].key) = otpStore[i].val]_vars

GeneratedBesideUsedRecord ==
    /\ ret.op = "generateOTP"
    /\ Len(otpStore) = 2
    /\ \E i, j \in 1..Len(otpStore) :
          /\ otpStore[i].val.attempts > 0
          /\ otpStore[j].val.attempts = 0
          /\ otpStore[j].val.otp = ret.value
          /\ otpStore[j].val.generatedAt = now
          /\ now > 0

\* C9: every code returned by generateOTP or resendOTP and every code stored in a
\* record is a string of 4 decimal digits whose value lies in 1000..9999.
CodesAreFourDigits ==
    /\ \A i \in 1..Len(otpStore) : IsOTPCode(otpStore[i].val.otp)
    /\ ret.op = "generateOTP" => IsOTPCode(ret.value)
    /\ (ret.op = "resendOTP" /\ ret.value.success) => IsOTPCode(ret.value.otp)

HighestCodeGenerated ==
    /\ ret.op = "generateOTP"
    /\ ParseDigits(ret.value) = 9999
    /\ \E i \in 1..Len(otpStore) : ParseDigits(otpStore[i].val.otp) = 1000

\* C10: checkOTPStatus leaves the Map and the persisted snapshot unchanged, whatever
\* the state of the record (expired, exhausted, past the grace window).
CheckStatusIsPureRead ==
    [][\A o \in OrderIds :
          CheckStatusStep(o) => (otpStore' = otpStore /\ storage' = storage)]_vars

StatusOfRecordPastGrace ==
    /\ ret.op = "checkOTPStatus"
    /\ ret.value.exists
    /\ ret.value.expired
    /\ \E i \in 1..Len(otpStore) :
          /\ now > otpStore[i].val.expiresAt + cleanupGrace
          /\ otpStore[i].val.attempts = ret.value.attempts

\* the step is resendOTP(o) with draw k
ResendStep(o, k) == ret'.op = "resendOTP" /\ ResendOTP(o, k)

\* s is ms milliseconds in whole seconds, a started second counting as one
WholeSeconds(s, ms) == s * 1000 >= ms /\ (s - 1) * 1000 < ms

\* C11: checkOTPStatus reports, for an existing record, exists = true, the record's
\* verified and attempts, remainingAttempts = max(0, 3 - attempts), timeRemaining =
\* max(0, expiresAt - now) in whole seconds and expired = (timeRemaining = 0), hence
\* verified = false, expired = false and 300 seconds right after generateOTP; for a
\* missing record it reports exists = false, verified = false, expired = true and 0
\* for attempts, remainingAttempts and timeRemaining.
StatusReportsRecord ==
    [][\A o \in OrderIds \cup QueryOrderIds :
          CheckStatusStep(o) =>
              IF MapHas(otpStore, o)
              THEN LET data == MapGet(otpStore, o)
                       left == IF data.expiresAt > now THEN data.expiresAt - now ELSE 0
                   IN  /\ ret'.value.exists
                       /\ ret'.value.verified = data.verified
                       /\ ret'.value.attempts = data.attempts
                       /\ ret'.value.remainingAttempts =
                             (IF data.attempts < 3 THEN 3 - data.attempts ELSE 0)
                       /\ WholeSeconds(ret'.value.timeRemaining, left)
                       /\ ret'.value.expired = (ret'.value.timeRemaining = 0)
                       /\ (data.generatedAt = now /\ data.attempts = 0) =>
                             /\ ~ret'.value.verified
                             /\ ~ret'.value.expired
                             /\ ret'.value.timeRemaining = 300
              ELSE ret'.value = [exists |-> FALSE, verified |-> FALSE, expired |-> TRUE,
                                 attempts |-> 0, remainingAttempts |-> 0,
                                 timeRemaining |-> 0]]_vars

StatusInsideStartedSecond ==
    /\ ret.op = "checkOTPStatus"
    /\ ret.value.exists
    /\ ~ret.value.expired
    /\ ret.value.timeRemaining = 300
    /\ \E i \in 1..Len(otpStore) :
          /\ otpStore[i].val.expiresAt - now = 299999
          /\ otpStore[i].val.attempts = ret.value.attempts

\* C12: for an existing record at every instant, now = expiresAt included,
\* checkOTPStatus reports expired = true exactly when verifyOTP at that instant takes
\* its expired branch (fails with the expiry message and deletes the record).
StatusAndVerifyAgreeOnExpiry ==
    \A o \in OrderIds, c \in InputOTPs :
        MapHas(otpStore, o) =>
            (CheckStatusResult(otpStore, now, o).expired <=>
                /\ Verify(otpStore, now, o, c).result = ExpiredResult
                /\ ~MapHas(Verify(otpStore, now, o, c).store, o))

\* C13: resendOTP with no record returns success = false and changes nothing; with a
\* record, whatever its state, it returns success = true and replaces the record by
\* a fresh one with the same phone, attempts 0, verified false, expiresAt = now + 5
\* minutes and the returned code, leaving the other records unchanged.
ResendRegenerates ==
    [][\A o \in OrderIds, k \in RandomSamples :
          ResendStep(o, k) =>
              IF MapHas(otpStore, o)
              THEN /\ ret'.value.success
                   /\ MapGet(otpStore', o) =
                         [otp |-> ret'.value.otp, phone |-> MapGet(otpStore, o).phone,
                          attempts |-> 0, generatedAt |-> now,
                          expiresAt |-> now + 5 * 60 * 1000, verified |-> FALSE]
                   /\ MapKeys(otpStore') = MapKeys(otpStore)
                   /\ \A i \in 1..Len(otpStore) :
                         otpStore[i].key # o =>
                             MapGet(otpStore', otpStore[i].key) = otpStore[i].val
              ELSE /\ ~ret'.value.success
                   /\ otpStore' = otpStore
                   /\ storage' = storage]_vars

ResentBesideOtherPhone ==
    /\ ret.op = "resendOTP"
    /\ ret.value.success
    /\ now > 0
    /\ Len(otpStore) = 2
    /\ otpStore[1].val.otp = ret.value.otp
    /\ otpStore[1].val.generatedAt = now
    /\ otpStore[1].val.phone # otpStore[2].val.phone

\* C14: whenever verifyOTP has failed for an order because its record's expiresAt
\* has passed, a resendOTP for that order right after it succeeds.
ExpiredRecoverableByResend ==
    [][\A o \in OrderIds, c \in InputOTPs :
          (VerifyStep(o, c) /\ ret'.value = ExpiredResult) =>
              ResendFinds(otpStore', o)]_vars

\* the step is the cleanup timer's callback
CleanupStep == ret'.op = "cleanupExpiredOTPs" /\ CleanupExpiredOTPs

\* C15: cleanupExpiredOTPs removes exactly the records with now > expiresAt + 5
\* minutes, verified or not, and leaves every other record unchanged; a second run
\* at the same instant removes nothing.
CleanupRemovesPastGraceOnly ==
    [][CleanupStep =>
          /\ \A i \in 1..Len(otpStore) :
                IF now > otpStore[i].val.expiresAt + 5 * 60 * 1000
                THEN ~MapHas(otpStore', otpStore[i].key)
                ELSE /\ MapHas(otpStore', otpStore[i].key)
                     /\ MapGet(otpStore', otpStore[i].key) = otpStore[i].val
          /\ MapKeys(otpStore') \subseteq MapKeys(otpStore)
          /\ ret'.value = Len(otpStore) - Len(otpStore')
          /\ CleanupStore(otpStore', now') = otpStore']_vars

CleanupKeptYoungerRecord ==
    /\ ret.op = "cleanupExpiredOTPs"
    /\ ret.value = 1
    /\ Len(otpStore) = 1
    /\ now > otpStore[1].val.expiresAt
    /\ otpStore[1].val.verified

\* the record of orderId in m, or the absence of one
RecordOf(m, orderId) == IF MapHas(m, orderId) THEN <<MapGet(m, orderId)>> ELSE <<>>

\* C16: a cleanup run right before verifyOTP or generateOTP changes neither the
\* success flag, nor remainingAttempts, nor the record (or absence of one) the call
\* leaves for its order, and removes no record verifyOTP could still accept.
CleanupCommutesWithCalls ==
    [][CleanupStep =>
          \A o \in OrderIds :
              /\ \A c \in InputOTPs :
                    LET direct == Verify(otpStore, now, o, c)
                        swept == Verify(otpStore', now', o, c)
                    IN  /\ swept.result.success = direct.result.success
                        /\ swept.result.remainingAttempts = direct.result.remainingAttempts
                        /\ RecordOf(swept.store, o) = RecordOf(direct.store, o)
                        /\ (MapHas(otpStore, o) /\ ~MapHas(otpStore', o)) =>
                              ~direct.result.success
              /\ \A p \in Phones, k \in RandomSamples :
                    RecordOf(GenerateStore(otpStore', now', o, p, RandomOTP(k)), o) =
                        RecordOf(GenerateStore(otpStore, now, o, p, RandomOTP(k)), o)]_vars

CleanupEmptiedTheMap ==
    /\ ret.op = "cleanupExpiredOTPs"
    /\ ret.value = 2
    /\ otpStore = <<>>
    /\ storage = SaveToStorage(<<>>)

\* C17: a record leaves the Map only when verifyOTP finds it past expiresAt or when
\* the cleanup finds it past the grace window, and is otherwise changed only by
\* verifyOTP, generateOTP and resendOTP; a verifyOTP on an unexpired record, one
\* with used-up attempts included, leaves it in the Map for checkOTPStatus to report.
RemovalOnlyOnExpiry ==
    [][\A o \in OrderIds :
          MapHas(otpStore, o) =>
              /\ ~MapHas(otpStore', o) =>
                    \/ ret'.op = "verifyOTP" /\ now > MapGet(otpStore, o).expiresAt
                    \/ /\ ret'.op = "cleanupExpiredOTPs"
                       /\ now > MapGet(otpStore, o).expiresAt + cleanupGrace
              /\ (MapHas(otpStore', o) /\ MapGet(otpStore', o) # MapGet(otpStore, o)) =>
                    ret'.op \in {"verifyOTP", "generateOTP", "resendOTP"}
              /\ (ret'.op = "verifyOTP" /\ now <= MapGet(otpStore, o).expiresAt) =>
                    /\ MapHas(otpStore', o)
                    /\ CheckStatusResult(otpStore', now', o).exists]_vars

ExhaustedRecordQueried ==
    /\ ret.op = "checkOTPStatus"
    /\ ret.value.exists
    /\ ~ret.value.verified
    /\ ~ret.value.expired
    /\ ret.value.attempts = maxAttempts
    /\ ret.value.remainingAttempts = 0

\* the step is getStatistics()
StatisticsStep == ret'.op = "getStatistics" /\ GetStatistics

\* the counts of the report, and the Map left as it was
StatisticsCounts(m, t, stats) ==
    /\ stats.total = Len(m)
    /\ stats.verified = Cardinality({i \in 1..Len(m) : m[i].val.verified = TRUE})
    /\ stats.expired = Cardinality({i \in 1..Len(m) : m[i].val.expiresAt < t})
    /\ stats.active = stats.total - stats.verified - stats.expired

\* the tenths of a percentage written with one decimal, "33.3" is 333
PercentTenths(s) == ParseDigits(SubSeq(s, 1, Len(s) - 2)) * 10 + DigitValue(s[Len(s)])

\* getStatistics reports the counts and successRate = verified / total * 100 exactly
StatisticsRateIsExact ==
    [][StatisticsStep =>
          /\ StatisticsCounts(otpStore, now, ret'.value)
          /\ otpStore' = otpStore
          /\ IF Len(otpStore) = 0 THEN ret'.value.successRate = Num(0)
             ELSE PercentTenths(ret'.value.successRate.s) * ret'.value.total =
                      1000 * ret'.value.verified]_vars

\* C18: getStatistics changes no record and reports total = number of records,
\* verified = number with verified true, expired = number with expiresAt < now,
\* active = total - verified - expired, and successRate = the number 0 when total
\* is 0, otherwise verified / total * 100 rounded to the nearest tenth and written
\* as a string with one decimal.
StatisticsIsAggregate ==
    [][StatisticsStep =>
          /\ StatisticsCounts(otpStore, now, ret'.value)
          /\ otpStore' = otpStore /\ storage' = storage
          /\ IF Len(otpStore) = 0 THEN ret'.value.successRate = Num(0)
             ELSE LET rate == ret'.value.successRate.s
                      err == PercentTenths(rate) * ret'.value.total - 1000 * ret'.value.verified
                  IN  /\ ret'.value.successRate.t = "string"
                      /\ rate[Len(rate) - 1] = "."
                      /\ 2 * err <= ret'.value.total
                      /\ 2 * err >= 0 - ret'.value.total]_vars

StatisticsOfOneInThree ==
    /\ ret.op = "getStatistics"
    /\ ret.value.total = 3
    /\ ret.value.verified = 1
    /\ ret.value.expired = 2
    /\ ret.value.successRate = Str(<<"3", "3", ".", "3">>)

\* C19: with two records in the Map, one of them verified, and the clock past the
\* expiresAt of both, getStatistics reports total = 2, verified = 1, expired = 1,
\* active = 0 and a successRate of 50.
StatisticsOfOneVerifiedOneExpired ==
    [][(/\ StatisticsStep
        /\ Len(otpStore) = 2
        /\ Cardinality({i \in 1..2 : otpStore[i].val.verified}) = 1
        /\ \A i \in 1..2 : now > otpStore[i].val.generatedAt + otpExpiry) =>
          /\ ret'.value.total = 2
          /\ ret'.value.verified = 1
          /\ ret'.value.expired = 1
          /\ ret'.value.active = 0
          /\ PercentTenths(ret'.value.successRate.s) = 500]_vars

\* the records of the snapshot, by property name
SnapshotRecords(item) ==
    IF item = NoItem THEN {} ELSE {<<item[2][i].key, item[2][i].val>> : i \in 1..Len(item[2])}

\* C20: after every generateOTP, verifyOTP, resendOTP and cleanup the snapshot holds
\* one record for each record of the Map, under the name of its key and with the
\* same fields, and no other record.
SnapshotHoldsStore ==
    ret.op \in {"generateOTP", "verifyOTP", "resendOTP", "cleanupExpiredOTPs"} =>
        /\ SnapshotRecords(storage) =
               {<<ToPropertyKey(otpStore[i].key), otpStore[i].val>> : i \in 1..Len(otpStore)}
        /\ Cardinality(SnapshotRecords(storage)) = Len(otpStore)

\* C21: whichever way sendOTPSMS ends, generateOTP returns the code it drew, and
\* the record it stored is in the Map and in the snapshot with the fields it was
\* created with.
SendFailureIsNotFatal ==
    [][\A o \in OrderIds, p \in Phones, k \in RandomSamples :
          (ret'.op = "generateOTP" /\ \E sendOK \in BOOLEAN : GenerateAndSend(o, p, k, sendOK)) =>
              /\ ret'.value = RandomOTP(k)
              /\ MapHas(otpStore', o)
              /\ MapGet(otpStore', o) = NewOTPData(RandomOTP(k), p, now)
              /\ <<ToPropertyKey(o), NewOTPData(RandomOTP(k), p, now)>>
                     \in SnapshotRecords(storage')]_vars

GeneratedWhileSendFailed ==
    /\ ret.op = "generateOTP"
    /\ ~ret.sms.success
    /\ MapHas(otpStore, Num(1))
    /\ MapGet(otpStore, Num(1)).otp = ret.value
    /\ MapGet(otpStore, Num(1)).attempts = 0

\* C22: what verifyOTP, resendOTP and checkOTPStatus hand back is always a result
\* object, never an exception: verifyOTP a success flag, a message and
\* remainingAttempts in 0..3, resendOTP a success flag and a message, checkOTPStatus
\* the six status fields; every failure of verifyOTP is one of not found, expired,
\* attempts exceeded and invalid.
ResultsAreStructured ==
    /\ ret.op = "verifyOTP" =>
          /\ DOMAIN ret.value = {"success", "message", "remainingAttempts"}
          /\ ret.value.success \in BOOLEAN
          /\ ret.value.remainingAttempts \in 0..maxAttempts
          /\ ~ret.value.success =>
                \/ ret.value \in {NotFoundResult, ExpiredResult, ExhaustedResult}
                \/ ret.value.message = InvalidMessage(ret.value.remainingAttempts)
    /\ ret.op = "resendOTP" =>
          /\ {"success", "message"} \subseteq DOMAIN ret.value
          /\ "thrown" \notin DOMAIN ret.value
          /\ ret.value.success \in BOOLEAN
          /\ ~ret.value.success => ret.value = CannotResendResult
    /\ ret.op = "checkOTPStatus" =>
          /\ DOMAIN ret.value = {"exists", "verified", "expired", "attempts",
                                 "remainingAttempts", "timeRemaining"}
          /\ ret.value.exists \in BOOLEAN

ResendRefusedWithResult ==
    /\ ret.op = "resendOTP"
    /\ ~ret.value.success
    /\ ret.value.message = <<"Cannot resend OTP. Please generate a new one.">>
    /\ otpStore # <<>>

\* C24: once verifyOTP has succeeded for a record, no later verifyOTP on that
\* record succeeds.
VerifiedCodeIsSpent ==
    [][\A o \in OrderIds, c \in InputOTPs :
          (/\ VerifyStep(o, c)
           /\ MapHas(otpStore, o)
           /\ MapGet(otpStore, o).verified) => ~ret'.value.success]_vars

\* C25: in every state getStatistics would report verified, expired and active
\* counts that are none of them negative and count no record twice.
StatisticsPartition ==
    LET stats == StatisticsResult(otpStore, now)
    IN  /\ stats.verified >= 0
        /\ stats.expired >= 0
        /\ stats.active >= 0
        /\ \A i \in 1..Len(otpStore) :
              ~(otpStore[i].val.verified /\ CountsAsExpired(otpStore[i].val, now))

\* C26: a page reload leaves, for every order id the Map held a record under, the
\* same answers of checkOTPStatus, verifyOTP and resendOTP, and at most one record
\* per order.
ReloadPreservesResults ==
    [][(ret'.op = "reload" /\ Reload) =>
          /\ \A o \in MapKeys(otpStore) :
                /\ CheckStatusResult(otpStore', now', o) = CheckStatusResult(otpStore, now, o)
                /\ \A c \in InputOTPs :
                      Verify(otpStore', now', o, c).result = Verify(otpStore, now, o, c).result
                /\ ResendFinds(otpStore', o) = ResendFinds(otpStore, o)
          /\ \A i, j \in 1..Len(otpStore') :
                ToPropertyKey(otpStore'[i].key) = ToPropertyKey(otpStore'[j].key) => i = j]_vars

(***************************************************************************)
(* Properties of the secret clock.                                         *)
(***************************************************************************)
\* C23: the edit mode of the clock is open only if a press has been held for the
\* whole long-press duration, so that handleLongPressComplete has run.
EditModeNeedsLongPress == editMode => longPressCompleted

(***************************************************************************)
(* Properties of the carts.                                                *)
(***************************************************************************)
\* the item ids of a cart with their quantities
CartContents(cart) == {<<x, cart[x].quantity>> : x \in DOMAIN cart}

\* C27: after every handler the saved cart, AppState.cart and ShoppingCart.cart
\* hold the same item ids with the same quantities.
CartCopiesAgree ==
    /\ CartContents(appCart) = CartContents(shopCart)
    /\ CartContents(LoadedCart(cartStorage, EmptyCart)) = CartContents(shopCart)

\* C28: every item of ShoppingCart.cart has a quantity of at least 1.
CartQuantitiesPositive == \A x \in DOMAIN shopCart : shopCart[x].quantity >= 1

\* C30: for the cart of the page, the delivery charge of updateCartSummary is the
\* one CartUtils.calculateDelivery gives for the same subtotal.
DeliveryChargesAgree == SummaryDeliveryCharge(GetTotal(shopCart)) = OrderSummaryDelivery(shopCart)

(***************************************************************************)
(* Properties of the resend button.                                        *)
(***************************************************************************)
\* C29: once a click has made resendOTP succeed, the button is not enabled while
\* the OTP it generated has time remaining.
ResendButtonWaits ==
    (ret.op = "resendOTP" /\ ret.value.success /\ ~resendDisabled) =>
        CheckStatusResult(otpStore, now, ButtonOrder).timeRemaining = 0

====
